---- MODULE Spec2Model ----
(***************************************************************************)
(* The word-list curation scripts of the French Wordle clone:              *)
(*   process_words.py                 words_raw.txt -> words.js            *)
(*   scripts/extract_from_libreoffice.py  fr_FR.dic -> french_words_raw.txt*)
(*   scripts/smart_filter.py   french_words_raw.txt -> words_smart_filtered.js *)
(*                                                                         *)
(* A Python string is a sequence of characters.  An ASCII character is the *)
(* one-character string itself; any other character is the string "U+hhhh" *)
(* of its code point:                                                      *)
(*   U+0009 tab           U+00C9 E acute (capital)   U+0152 OE ligature (capital) *)
(*   U+00E0 a grave       U+00E2 a circumflex        U+00E4 a diaeresis    *)
(*   U+00E6 ae ligature   U+00E7 c cedilla           U+00E8 e grave        *)
(*   U+00E9 e acute       U+00EA e circumflex        U+00EB e diaeresis    *)
(*   U+00EE i circumflex  U+00EF i diaeresis         U+00F1 n tilde        *)
(*   U+00F4 o circumflex  U+00F6 o diaeresis         U+00F9 u grave        *)
(*   U+00FB u circumflex  U+00FC u diaeresis         U+0153 oe ligature    *)
(*   U+01FD ae ligature with acute                   U+FB01 fi ligature    *)
(*   U+FB02 fl ligature                                                    *)
(*   U+0300 U+0301 U+0302 U+0303 U+0308 U+0327: the combining grave, acute,*)
(*   circumflex, tilde, diaeresis and cedilla                              *)
(***************************************************************************)
EXTENDS Integers, Sequences, FiniteSets, TLC

(***************************************************************************)
(* Characters: the str and unicodedata primitives the scripts call.        *)
(***************************************************************************)

AsciiLower ==
    <<"a", "b", "c", "d", "e", "f", "g", "h", "i", "j", "k", "l", "m",
      "n", "o", "p", "q", "r", "s", "t", "u", "v", "w", "x", "y", "z">>

AsciiUpper ==
    <<"A", "B", "C", "D", "E", "F", "G", "H", "I", "J", "K", "L", "M",
      "N", "O", "P", "Q", "R", "S", "T", "U", "V", "W", "X", "Y", "Z">>

Range(s) == {s[k] : k \in DOMAIN s}

IndexOf(s, c) == CHOOSE k \in DOMAIN s : s[k] = c

\* The non-ASCII letters of the model, lowercase and uppercase.
AccentedLower ==
    {"U+00E0", "U+00E2", "U+00E4", "U+00E6", "U+00E7", "U+00E8", "U+00E9", "U+00EA",
     "U+00EB", "U+00EE", "U+00EF", "U+00F1", "U+00F4", "U+00F6", "U+00F9", "U+00FB",
     "U+00FC", "U+0153", "U+01FD", "U+FB01", "U+FB02"}

AccentedUpper == {"U+00C9", "U+0152"}

\* unicodedata.combining(c) # 0: the combining marks.
CombiningMarks == {"U+0300", "U+0301", "U+0302", "U+0303", "U+0308", "U+0327"}

\* ord(c): the order sorted() compares strings by.
CodePoint(c) ==
    CASE c \in Range(AsciiLower) -> 96 + IndexOf(AsciiLower, c)
      [] c \in Range(AsciiUpper) -> 64 + IndexOf(AsciiUpper, c)
      [] c = "U+0009" -> 9
      [] c = " " -> 32
      [] c = "'" -> 39
      [] c = "-" -> 45
      [] c = "." -> 46
      [] c = "/" -> 47
      [] c = "U+00C9" -> 201
      [] c = "U+00E0" -> 224
      [] c = "U+00E2" -> 226
      [] c = "U+00E4" -> 228
      [] c = "U+00E6" -> 230
      [] c = "U+00E7" -> 231
      [] c = "U+00E8" -> 232
      [] c = "U+00E9" -> 233
      [] c = "U+00EA" -> 234
      [] c = "U+00EB" -> 235
      [] c = "U+00EE" -> 238
      [] c = "U+00EF" -> 239
      [] c = "U+00F1" -> 241
      [] c = "U+00F4" -> 244
      [] c = "U+00F6" -> 246
      [] c = "U+00F9" -> 249
      [] c = "U+00FB" -> 251
      [] c = "U+00FC" -> 252
      [] c = "U+0152" -> 338
      [] c = "U+0153" -> 339
      [] c = "U+01FD" -> 509
      [] c = "U+0300" -> 768
      [] c = "U+0301" -> 769
      [] c = "U+0302" -> 770
      [] c = "U+0303" -> 771
      [] c = "U+0308" -> 776
      [] c = "U+0327" -> 807
      [] c = "U+FB01" -> 64257
      [] c = "U+FB02" -> 64258

\* str.isalpha() of one character.
isalpha(c) ==
    c \in Range(AsciiLower) \cup Range(AsciiUpper) \cup AccentedLower \cup AccentedUpper

\* str.isupper() of one character.
isupper(c) == c \in Range(AsciiUpper) \cup AccentedUpper

\* str.lower() of one character.
LowerChar(c) ==
    CASE c \in Range(AsciiUpper) -> AsciiLower[IndexOf(AsciiUpper, c)]
      [] c = "U+00C9" -> "U+00E9"
      [] c = "U+0152" -> "U+0153"
      [] OTHER -> c

\* str.lower()
lower(s) == [k \in DOMAIN s |-> LowerChar(s[k])]

\* The characters str.strip() removes.
Whitespace == {" ", "U+0009"}

\* str.strip()
RECURSIVE strip(_)
strip(s) ==
    IF s = <<>> THEN s
    ELSE IF Head(s) \in Whitespace THEN strip(Tail(s))
    ELSE IF s[Len(s)] \in Whitespace THEN strip(SubSeq(s, 1, Len(s) - 1))
    ELSE s

\* str.replace(old, new) for a one-character old.
RECURSIVE replace(_, _, _)
replace(s, old, new) ==
    IF s = <<>> THEN <<>>
    ELSE (IF Head(s) = old THEN new ELSE <<Head(s)>>) \o replace(Tail(s), old, new)

\* str.endswith(suffix)
endswith(s, suffix) ==
    /\ Len(suffix) <= Len(s)
    /\ SubSeq(s, Len(s) - Len(suffix) + 1, Len(s)) = suffix

\* The compatibility decomposition of one character (the words of the model
\* carry at most one mark per letter, so no reordering of marks arises).
Decompose(c) ==
    CASE c = "U+00C9" -> <<"E", "U+0301">>
      [] c = "U+00E0" -> <<"a", "U+0300">>
      [] c = "U+00E2" -> <<"a", "U+0302">>
      [] c = "U+00E4" -> <<"a", "U+0308">>
      [] c = "U+00E7" -> <<"c", "U+0327">>
      [] c = "U+00E8" -> <<"e", "U+0300">>
      [] c = "U+00E9" -> <<"e", "U+0301">>
      [] c = "U+00EA" -> <<"e", "U+0302">>
      [] c = "U+00EB" -> <<"e", "U+0308">>
      [] c = "U+00EE" -> <<"i", "U+0302">>
      [] c = "U+00EF" -> <<"i", "U+0308">>
      [] c = "U+00F1" -> <<"n", "U+0303">>
      [] c = "U+00F4" -> <<"o", "U+0302">>
      [] c = "U+00F6" -> <<"o", "U+0308">>
      [] c = "U+00F9" -> <<"u", "U+0300">>
      [] c = "U+00FB" -> <<"u", "U+0302">>
      [] c = "U+00FC" -> <<"u", "U+0308">>
      [] c = "U+01FD" -> <<"U+00E6", "U+0301">>
      [] c = "U+FB01" -> <<"f", "i">>
      [] c = "U+FB02" -> <<"f", "l">>
      [] OTHER -> <<c>>

\* unicodedata.normalize('NFKD', s)
RECURSIVE NFKD(_)
NFKD(s) == IF s = <<>> THEN <<>> ELSE Decompose(Head(s)) \o NFKD(Tail(s))

\* s1 < s2 as Python compares strings: by code point, a proper prefix first.
RECURSIVE StrLess(_, _)
StrLess(s1, s2) ==
    IF s2 = <<>> THEN FALSE
    ELSE IF s1 = <<>> THEN TRUE
    ELSE IF Head(s1) = Head(s2) THEN StrLess(Tail(s1), Tail(s2))
    ELSE CodePoint(Head(s1)) < CodePoint(Head(s2))

\* A list(set(...)) left as the set happens to iterate, here greatest first.
RECURSIVE unsorted(_)
unsorted(S) ==
    IF S = {} THEN <<>>
    ELSE LET greatest == CHOOSE x \in S : \A y \in S \ {x} : StrLess(y, x)
         IN  <<greatest>> \o unsorted(S \ {greatest})

\* sorted(S) of a collection without repetitions.
RECURSIVE sorted(_)
sorted(S) ==
    IF S = {} THEN <<>>
    ELSE LET least == CHOOSE x \in S : \A y \in S \ {x} : StrLess(x, y)
         IN  <<least>> \o sorted(S \ {least})

(***************************************************************************)
(* process_words.py                                                        *)
(***************************************************************************)

\* remove_accents without its first line: NFKD alone, which leaves oe and ae whole.
remove_accents_nfkd_only(input_str) ==
    SelectSeq(NFKD(input_str), LAMBDA c : c \notin CombiningMarks)

\* remove_accents: the two ligatures by hand, then NFKD without its marks.
remove_accents(input_str) ==
    LET replaced == replace(replace(input_str, "U+0153", <<"o", "e">>),
                            "U+00E6", <<"a", "e">>)
        nfkd_form == NFKD(replaced)
    IN  SelectSeq(nfkd_form, LAMBDA c : c \notin CombiningMarks)

proper_nouns == {
    <<"p", "a", "r", "i", "s">>, <<"l", "y", "o", "n">>, <<"b", "r", "e", "s", "t">>,
    <<"n", "a", "n", "c", "y">>, <<"l", "i", "l", "l", "e">>, <<"m", "e", "t", "z">>,
    <<"r", "o", "u", "e", "n">>, <<"t", "o", "u", "r", "s">>, <<"r", "e", "i", "m", "s">>,
    <<"c", "a", "e", "n">>, <<"d", "i", "j", "o", "n">>, <<"n", "i", "m", "e", "s">>,
    <<"a", "r", "l", "e", "s">>, <<"e", "v", "r", "o", "n">>, <<"m", "e", "l", "u", "n">>,
    <<"n", "a", "v", "e", "s">>, <<"n", "e", "s", "l", "e">>, <<"o", "i", "r", "o", "n">>,
    <<"r", "o", "y", "a", "n">>, <<"s", "e", "d", "a", "n">>, <<"t", "u", "l", "l", "e">>,
    <<"u", "g", "i", "n", "e">>, <<"u", "s", "s", "e", "l">>, <<"y", "e", "n", "n", "e">>,
    <<"a", "l", "l", "o", "s">>, <<"c", "l", "u", "s", "e">>, <<"d", "i", "n", "a", "n">>,
    <<"e", "r", "n", "e", "e">>, <<"i", "s", "o", "l", "a">>, <<"t", "r", "e", "t", "s">>,
    <<"t", "u", "n", "i", "s">>, <<"d", "u", "b", "a", "i">>, <<"t", "o", "k", "y", "o">>,
    <<"m", "i", "l", "a", "n">>, <<"v", "a", "d", "u", "z">>, <<"s", "o", "f", "i", "a">>,
    <<"o", "s", "a", "k", "a">>, <<"t", "u", "r", "k", "u">>, <<"d", "a", "c", "c", "a">>,
    <<"h", "a", "n", "o", "i">>, <<"k", "y", "o", "t", "o">>, <<"d", "o", "h", "a">>,
    <<"l", "i", "m", "a">>, <<"o", "s", "l", "o">>, <<"r", "i", "g", "a">>,
    <<"r", "o", "m", "e">>, <<"s", "e", "o", "u", "l">>, <<"b", "e", "r", "n">>,
    <<"i", "t", "a", "l", "y">>, <<"c", "h", "i", "n", "e">>, <<"g", "r", "e", "c", "e">>,
    <<"j", "a", "p", "o", "n">>, <<"m", "a", "r", "o", "c">>, <<"s", "u", "e", "d", "e">>,
    <<"s", "u", "i", "s", "s", "e">>, <<"s", "y", "r", "i", "e">>, <<"t", "c", "h", "a", "d">>,
    <<"y", "e", "m", "e", "n">>, <<"p", "e", "r", "s", "e">>, <<"i", "n", "d", "e", "s">>,
    <<"g", "a", "l", "l", "e", "s">>, <<"e", "x", "o", "d", "e">>, <<"t", "i", "b", "e", "t">>,
    <<"n", "e", "p", "a", "l">>, <<"t", "e", "x", "a", "s">>, <<"m", "a", "i", "n", "e">>,
    <<"k", "a", "n", "a", "k">>, <<"t", "u", "t", "s", "i">>, <<"s", "l", "a", "v", "e">>,
    <<"s", "a", "r", "d", "e">>, <<"m", "a", "u", "r", "e">>, <<"k", "u", "r", "d", "e">>,
    <<"l", "a", "t", "i", "n", "o">>, <<"k", "h", "m", "e", "r">>,
    <<"a", "z", "t", "e", "q", "u", "e">>, <<"i", "n", "c", "a", "s">>,
    <<"a", "l", "i", "c", "e">>, <<"c", "h", "l", "o", "e">>, <<"c", "l", "a", "r", "a">>,
    <<"e", "l", "e", "n", "a">>, <<"j", "u", "l", "i", "a">>, <<"l", "i", "v", "i", "a">>,
    <<"m", "a", "e", "v", "a">>, <<"s", "a", "r", "a", "h">>, <<"a", "d", "e", "l", "e">>,
    <<"a", "m", "b", "r", "e">>, <<"a", "n", "a", "i", "s">>, <<"a", "n", "n", "i", "e">>,
    <<"a", "n", "o", "u", "k">>, <<"m", "a", "r", "i", "e">>, <<"l", "e", "i", "l", "a">>,
    <<"l", "y", "d", "i", "e">>, <<"l", "a", "u", "r", "e">>, <<"l", "i", "n", "d", "a">>,
    <<"p", "a", "o", "l", "a">>, <<"k", "a", "t", "i", "a">>, <<"s", "o", "n", "y", "a">>,
    <<"h", "e", "l", "e", "n">>, <<"g", "r", "e", "t", "a">>, <<"s", "a", "n", "d", "y">>,
    <<"l", "u", "c", "i", "e">>, <<"j", "u", "l", "i", "e">>, <<"c", "e", "l", "i", "a">>,
    <<"d", "i", "a", "n", "e">>, <<"f", "a", "n", "n", "y">>, <<"f", "l", "o", "r", "a">>,
    <<"m", "a", "n", "o", "n">>, <<"n", "i", "n", "o", "n">>, <<"t", "a", "n", "y", "a">>,
    <<"k", "e", "l", "l", "y">>, <<"j", "o", "y", "c", "e">>, <<"e", "l", "i", "z", "a">>,
    <<"d", "a", "i", "s", "y">>, <<"c", "a", "t", "h", "y">>, <<"b", "e", "t", "t", "y">>,
    <<"a", "l", "i", "d", "a">>, <<"a", "g", "l", "a", "e">>, <<"i", "r", "e", "n", "e">>,
    <<"e", "d", "i", "t", "h">>, <<"e", "s", "t", "e", "r">>, <<"a", "g", "a", "t", "h", "e">>,
    <<"j", "e", "a", "n", "n", "e">>, <<"l", "o", "u", "i", "s", "e">>,
    <<"a", "n", "g", "e", "l">>, <<"b", "r", "u", "n", "o">>, <<"d", "e", "n", "i", "s">>,
    <<"e", "m", "i", "l", "e">>, <<"e", "t", "h", "a", "n">>, <<"f", "e", "l", "i", "x">>,
    <<"h", "e", "n", "r", "i">>, <<"j", "a", "m", "e", "s">>, <<"j", "u", "l", "e", "s">>,
    <<"l", "o", "u", "i", "s">>, <<"l", "u", "c", "a", "s">>, <<"n", "o", "l", "a", "n">>,
    <<"a", "a", "r", "o", "n">>, <<"d", "a", "v", "i", "d">>, <<"k", "e", "v", "i", "n">>,
    <<"s", "t", "e", "v", "e">>, <<"s", "e", "r", "g", "e">>, <<"c", "y", "r", "i", "l">>,
    <<"j", "a", "s", "o", "n">>, <<"j", "o", "h", "a", "n">>, <<"m", "a", "r", "c", "o">>,
    <<"m", "a", "t", "e", "o">>, <<"o", "s", "c", "a", "r">>, <<"s", "a", "c", "h", "a">>,
    <<"s", "i", "m", "o", "n">>, <<"t", "e", "d", "d", "y">>, <<"t", "i", "m", "o", "n">>,
    <<"t", "o", "m", "m", "y">>, <<"w", "i", "l", "l", "y">>, <<"y", "a", "n", "i", "s">>,
    <<"b", "r", "i", "a", "n">>, <<"c", "e", "d", "r", "i", "c">>,
    <<"d", "a", "m", "i", "e", "n">>, <<"d", "y", "l", "a", "n">>, <<"e", "d", "w", "i", "n">>,
    <<"f", "r", "a", "n", "k">>, <<"g", "i", "l", "l", "e", "s">>,
    <<"h", "e", "r", "v", "U+00E9">>, <<"j", "e", "r", "r", "y">>, <<"j", "i", "m", "m", "y">>,
    <<"j", "o", "n", "a", "s">>, <<"k", "e", "i", "t", "h">>, <<"l", "a", "r", "r", "y">>,
    <<"m", "a", "u", "d">>, <<"m", "u", "l", "a", "n">>, <<"p", "e", "t", "e", "r">>,
    <<"r", "a", "l", "p", "h">>, <<"r", "o", "b", "i", "n">>, <<"r", "u", "b", "e", "n">>,
    <<"s", "a", "m", "u", "e", "l">>, <<"t", "a", "n", "g", "u", "y">>,
    <<"t", "e", "r", "r", "y">>, <<"w", "a", "l", "t", "e", "r">>, <<"w", "a", "y", "n", "e">>,
    <<"x", "a", "v", "i", "e", "r">>, <<"y", "v", "e", "s">>, <<"a", "l", "a", "i", "n">>,
    <<"b", "o", "r", "i", "s">>, <<"c", "o", "l", "i", "n">>, <<"a", "l", "l", "a", "h">>,
    <<"j", "e", "s", "u", "s">>, <<"j", "u", "d", "a", "s">>, <<"m", "o", "i", "s", "e">>,
    <<"n", "o", "e", "l">>, <<"p", "a", "q", "u", "e", "s">>, <<"s", "a", "t", "a", "n">>,
    <<"v", "e", "n", "u", "s">>, <<"z", "e", "u", "s">>, <<"h", "a", "d", "e", "s">>,
    <<"t", "h", "o", "r">>, <<"s", "h", "i", "v", "a">>, <<"b", "r", "a", "h", "m", "a">>,
    <<"v", "i", "s", "h", "n", "u">>, <<"b", "u", "d", "d", "h", "a">>,
    <<"c", "h", "r", "i", "s", "t">>, <<"i", "s", "l", "a", "m">>, <<"c", "o", "r", "a", "n">>,
    <<"b", "i", "b", "l", "e">>, <<"t", "o", "r", "a", "h">>, <<"v", "a", "d", "a">>,
    <<"p", "e", "p", "s", "i">>, <<"c", "o", "k", "e">>, <<"f", "a", "n", "t", "a">>,
    <<"a", "p", "p", "l", "e">>, <<"g", "o", "o", "g", "l", "e">>, <<"l", "i", "n", "u", "x">>,
    <<"s", "k", "y", "p", "e">>, <<"t", "w", "i", "t", "t", "e", "r">>,
    <<"y", "a", "h", "o", "o">>, <<"z", "o", "i", "l", "e">>, <<"b", "o", "e", "i", "n", "g">>,
    <<"a", "i", "r", "b", "u", "s">>, <<"n", "a", "s", "a">>, <<"e", "s", "a">>,
    <<"n", "a", "t", "o">>, <<"o", "t", "a", "n">>, <<"u", "n", "e", "s", "c", "o">>,
    <<"n", "a", "v", "e", "l">>, <<"d", "i", "e", "s", "e", "l">>,
    <<"c", "a", "d", "d", "i", "e">>, <<"s", "c", "o", "t", "c", "h">>,
    <<"f", "r", "i", "g", "o">>, <<"k", "a", "r", "c", "h", "e", "r">>,
    <<"k", "l", "a", "x", "o", "n">>, <<"s", "o", "p", "a", "l", "i", "n">>,
    <<"v", "e", "l", "u", "x">>, <<"p", "o", "s", "t", "i", "t">>
}

\* The filter as a no-op: it returns False whatever the word.
is_likely_proper_noun_disabled(word) == FALSE

is_likely_proper_noun(word) == word \in proper_nouns

\* The singular words ending in s.
s_exceptions == {
    <<"t", "e", "m", "p", "s">>, <<"c", "o", "r", "p", "s">>, <<"r", "e", "p", "a", "s">>,
    <<"m", "o", "i", "s", "c">>, <<"c", "o", "u", "r", "s">>, <<"s", "o", "u", "r", "i", "s">>,
    <<"v", "e", "l", "o", "u", "r", "s">>, <<"t", "a", "p", "i", "s">>,
    <<"p", "u", "i", "t", "s">>, <<"c", "h", "a", "o", "s">>, <<"o", "s">>, <<"a", "s">>,
    <<"b", "u", "i", "s">>
}

ez_exceptions == {
    <<"a", "s", "s", "e", "z">>
}

\* The suffix rules without their exception tables.
is_likely_plural_no_exceptions(word) ==
    \/ endswith(word, <<"s">>)
    \/ endswith(word, <<"e", "z">>)

is_likely_plural_or_conjugated(word) ==
    \/ endswith(word, <<"s">>) /\ word \notin s_exceptions
    \/ endswith(word, <<"e", "z">>) /\ word \notin ez_exceptions

(***************************************************************************)
(* scripts/smart_filter.py: the heuristic validator and the normalizer     *)
(***************************************************************************)

\* The class [aeiouy...] of the two regular expressions of _is_valid_word.
VowelClass ==
    {"a", "e", "i", "o", "u", "y",
     "U+00E0", "U+00E2", "U+00E4", "U+00E9", "U+00E8", "U+00EA", "U+00EB", "U+00EF",
     "U+00EE", "U+00F4", "U+00F6", "U+0153", "U+00F9", "U+00FB", "U+00FC", "U+00E6"}

\* The class [bcdfghjklmnpqrstvwxyz] of criterion 8.
ConsonantClass ==
    {"b", "c", "d", "f", "g", "h", "j", "k", "l", "m", "n", "p", "q", "r", "s", "t",
     "v", "w", "x", "y", "z"}

bad_endings ==
    {<<"n", "m">>, <<"b", "d">>, <<"f", "h">>, <<"j", "k">>, <<"q", "x">>,
     <<"z", "z">>, <<"w", "w">>}

\* re.search of the vowel class in word.
HasVowel(word) == \E k \in DOMAIN word : word[k] \in VowelClass

\* re.match of ^(vowel | consonant{1,3} vowel) at the start of word.
ValidStart(word) ==
    \/ Len(word) >= 1 /\ word[1] \in VowelClass
    \/ \E n \in 1..3 :
          /\ Len(word) >= n + 1
          /\ \A k \in 1..n : word[k] \in ConsonantClass
          /\ word[n + 1] \in VowelClass

\* The keys of self.stats.
RejectionReasons ==
    {"rejected_proper_noun", "rejected_length", "rejected_no_vowel",
     "rejected_double_start", "rejected_bad_ending", "rejected_bad_start"}

StatKeys == RejectionReasons \cup {"initial_accepted", "spellcheck_validated"}

\* _is_valid_word with criterion 8 moved up before criterion 3: the start shape
\* is tested before the vowel.
RejectionReason_start_first(word) ==
    IF word # <<>> /\ isupper(word[1]) THEN "rejected_proper_noun"
    ELSE IF Len(word) < 3 \/ Len(word) > 5 THEN "rejected_length"
    ELSE IF ~ValidStart(word) THEN "rejected_bad_start"
    ELSE IF ~HasVowel(word) THEN "rejected_no_vowel"
    ELSE IF Len(word) > 1 /\ word[1] = word[2] THEN "rejected_double_start"
    ELSE IF \E e \in bad_endings : endswith(word, e) THEN "rejected_bad_ending"
    ELSE "accepted"

\* The counter _is_valid_word increments on word, "accepted" when it returns True.
RejectionReason(word) ==
    IF word # <<>> /\ isupper(word[1]) THEN "rejected_proper_noun"
    ELSE IF Len(word) < 3 \/ Len(word) > 5 THEN "rejected_length"
    ELSE IF ~HasVowel(word) THEN "rejected_no_vowel"
    ELSE IF Len(word) > 1 /\ word[1] = word[2] THEN "rejected_double_start"
    ELSE IF \E e \in bad_endings : endswith(word, e) THEN "rejected_bad_ending"
    ELSE IF ~ValidStart(word) THEN "rejected_bad_start"
    ELSE "accepted"

_is_valid_word(word) == RejectionReason(word) = "accepted"

\* accent_map.get(char, char)
accent_map(char) ==
    CASE char \in {"U+00E0", "U+00E2", "U+00E4"} -> <<"a">>
      [] char \in {"U+00E9", "U+00E8", "U+00EA", "U+00EB"} -> <<"e">>
      [] char \in {"U+00EF", "U+00EE"} -> <<"i">>
      [] char \in {"U+00F4", "U+00F6"} -> <<"o">>
      [] char = "U+0153" -> <<"o", "e">>
      [] char \in {"U+00F9", "U+00FB", "U+00FC"} -> <<"u">>
      [] char = "U+00E7" -> <<"c">>
      [] char = "U+00E6" -> <<"a", "e">>
      [] OTHER -> <<char>>

RECURSIVE MapAccents(_)
MapAccents(s) == IF s = <<>> THEN <<>> ELSE accent_map(Head(s)) \o MapAccents(Tail(s))

_normalize_word(word) == MapAccents(lower(word))

\* What spellchecker.check(word) can do: answer, or raise.
OracleOutcomes == {"true", "false", "raise"}

\* _check_spellcheck whose call of the checker always ends in its bare except.
_check_spellcheck_swallowed(checker, outcome) == FALSE

\* _check_spellcheck, given what the oracle does when it is asked.
_check_spellcheck(checker, outcome) ==
    IF checker = "None" THEN FALSE
    ELSE IF outcome = "raise" THEN FALSE
    ELSE outcome = "true"

(***************************************************************************)
(* scripts/extract_from_libreoffice.py                                     *)
(***************************************************************************)

\* ligature_map, in the order its items are replaced.
ligature_map ==
    << <<"U+0153", <<"o", "e">> >>, <<"U+00E6", <<"a", "e">> >>,
       <<"U+FB01", <<"f", "i">> >>, <<"U+FB02", <<"f", "l">> >> >>

RECURSIVE ExpandFrom(_, _)
ExpandFrom(expanded, k) ==
    IF k > Len(ligature_map) THEN expanded
    ELSE ExpandFrom(replace(expanded, ligature_map[k][1], ligature_map[k][2]), k + 1)

_expand_ligatures(word) == ExpandFrom(word, 1)

\* The characters filter_5letter_words allows beside the alphabetic ones.
AllowedAccents ==
    {"U+00E0", "U+00E2", "U+00E4", "U+00E9", "U+00E8", "U+00EA", "U+00EB", "U+00EF",
     "U+00EE", "U+00F4", "U+00F6", "U+0153", "U+00F9", "U+00FB", "U+00FC", "U+00E6",
     "U+00E7", "U+00F1"}

\* The gate of filter_5letter_words: the length of the expanded word, the
\* characters of the word as read.
IsFiveLetter(word) ==
    /\ Len(_expand_ligatures(word)) = 5
    /\ \A k \in DOMAIN word : isalpha(word[k]) \/ word[k] \in AllowedAccents

\* str.split('/')[0]
RECURSIVE BeforeSlash(_)
BeforeSlash(s) ==
    IF s = <<>> \/ Head(s) = "/" THEN <<>> ELSE <<Head(s)>> \o BeforeSlash(Tail(s))

\* The word of one line of the .dic file: line.strip().split('/')[0].lower()
DicWord(line) == lower(BeforeSlash(strip(line)))

(***************************************************************************)
(* The runs: one script, started on one input file.                        *)
(***************************************************************************)

\* The longest input file, in lines.
MaxLines == 2

\* The lines an input file is made of.
RawLines == {
    <<"t", "e", "m", "p", "s">>,  \* temps: singular in s
    <<"j", "o", "u", "e", "s">>,  \* joues: conjugated in s
    <<"a", "s", "s", "e", "z">>,  \* assez: the ez exception
    <<"j", "o", "u", "e", "z">>,  \* jouez: conjugated in ez
    <<"p", "a", "r", "i", "s">>,  \* paris: a curated proper noun
    <<" ", "P", "a", "r", "i", "s", "U+0009">>,  \* Paris, capitalised, between a space and a tab
    <<"U+00E9", "c", "o", "l", "e">>,  \* ecole with e acute
    <<"U+00C9", "c", "o", "l", "e">>,  \* Ecole, with a capital E acute
    <<"b", "U+0153", "u", "f">>,  \* boeuf written with the oe ligature: 4 characters
    <<"U+0153", "u", "v", "e", "U+0301">>,  \* oeuve with the oe ligature and a combining acute: 5 characters
    <<"c", "U+0153", "u", "r", "s">>,  \* coeurs written with the oe ligature: 5 characters
    <<"c", "h", "a", "t">>,  \* chat: 4 letters
    <<"l", "'", "e", "a", "u">>,  \* l'eau: 5 characters with an apostrophe
    <<"c", "U+01FD", "s", "a", "r">>,  \* caesar with the accented ae ligature U+01FD
    <<"h", "e", "r", "v", "U+00E9">>,  \* herve with e acute
    <<"s", "c", "h", "w", "a">>,  \* schwa: four consonants before the first vowel
    <<"b", "r", "r", "r">>,  \* brrr: no vowel
    <<"l", "l", "a", "n", "o">>,  \* llano: a double letter at the start
    <<"j", "a", "z", "z">>,  \* jazz: a bad ending
    <<"p", "o", "m", "m", "e", "/", "S", ".">>,  \* pomme with Hunspell tags
    <<" ", " ">>  \* a blank line
}

RECURSIVE SeqsUpTo(_, _)
SeqsUpTo(S, n) ==
    IF n = 0 THEN {<<>>}
    ELSE LET shorter == SeqsUpTo(S, n - 1)
         IN  shorter \cup {Append(s, x) : s \in shorter, x \in S}

InputFiles == SeqsUpTo(RawLines, MaxLines)

Programs == {"process_words", "extract_from_libreoffice", "smart_filter"}

VARIABLES
    prog,           \* the script that runs
    pc,             \* where the run is
    lines,          \* the lines of the input file
    words,          \* main: the stripped, lowercased, non-blank lines
    i,              \* main: the index of the next word of the loop
    valid_guesses,  \* main: the list
    target_words,   \* main: the list
    TARGET_WORDS,   \* the array of that name in the generated .js file
    VALID_GUESSES,  \* the array of that name in the generated .js file
    extracted,      \* LibreOfficeExtractor.words
    five_letter,    \* LibreOfficeExtractor.stats['five_letter']
    saved,          \* the lines of the file save_to_file writes
    spellchecker,   \* SmartFilterV2.spellchecker: "None" or "enchant"
    words_raw,      \* SmartFilterV2.words_raw
    pending,        \* the words a loop of filter_words has still to visit
    initial_accepted,
    to_spellcheck,
    words_accepted,
    words_rejected,
    words_spellcheck_validated,
    stats,          \* SmartFilterV2.stats
    oracle_log      \* the oracle's own record: <<word asked, what it did>>

vars ==
    <<prog, pc, lines, words, i, valid_guesses, target_words, TARGET_WORDS,
      VALID_GUESSES, extracted, five_letter, saved, spellchecker, words_raw, pending,
      initial_accepted, to_spellcheck, words_accepted, words_rejected,
      words_spellcheck_validated, stats, oracle_log>>

main_vars == <<words, i, valid_guesses, target_words>>

extractor_vars == <<extracted, five_letter, saved>>

filter_vars ==
    <<spellchecker, words_raw, pending, initial_accepted, to_spellcheck, words_accepted,
      words_rejected, words_spellcheck_validated, stats, oracle_log>>

js_vars == <<TARGET_WORDS, VALID_GUESSES>>

\* SmartFilterV2.__init__ ends with _init_spellchecker: enchant loads, or the
\* spell-checker stays None.
Init ==
    /\ prog \in Programs
    /\ pc = "start"
    /\ lines \in InputFiles
    /\ words = <<>>
    /\ i = 1
    /\ valid_guesses = <<>>
    /\ target_words = <<>>
    /\ TARGET_WORDS = <<>>
    /\ VALID_GUESSES = <<>>
    /\ extracted = {}
    /\ five_letter = 0
    /\ saved = <<>>
    /\ spellchecker \in (IF prog = "smart_filter" THEN {"None", "enchant"} ELSE {"None"})
    /\ words_raw = {}
    /\ pending = {}
    /\ initial_accepted = {}
    /\ to_spellcheck = {}
    /\ words_accepted = {}
    /\ words_rejected = {}
    /\ words_spellcheck_validated = {}
    /\ stats = [k \in StatKeys |-> 0]
    /\ oracle_log = {}

(***************************************************************************)
(* process_words.main                                                      *)
(***************************************************************************)

\* [w.strip().lower() for w in raw_content.splitlines() if w.strip()]
ReadWords(content) ==
    LET kept == SelectSeq(content, LAMBDA w : strip(w) # <<>>)
    IN  [k \in DOMAIN kept |-> lower(strip(kept[k]))]

\* The file is read, or open() raises and main prints the error.
main_read ==
    /\ prog = "process_words"
    /\ pc = "start"
    /\ \E exists \in BOOLEAN :
          IF exists
          THEN /\ words' = ReadWords(lines)
               /\ pc' = "loop"
          ELSE /\ pc' = "error"
               /\ UNCHANGED words
    /\ UNCHANGED <<prog, lines, i, valid_guesses, target_words>>
    /\ UNCHANGED <<js_vars, extractor_vars, filter_vars>>

\* main_loop with the two appends in the two branches of the test: the lists
\* partition the words instead of nesting.
main_loop_partition ==
    /\ prog = "process_words"
    /\ pc = "loop"
    /\ i <= Len(words)
    /\ LET normalized_word == remove_accents(words[i])
       IN  IF Len(normalized_word) # 5 \/ is_likely_proper_noun(normalized_word)
           THEN UNCHANGED <<valid_guesses, target_words>>
           ELSE IF ~is_likely_plural_or_conjugated(normalized_word)
           THEN /\ target_words' = Append(target_words, normalized_word)
                /\ UNCHANGED valid_guesses
           ELSE /\ valid_guesses' = Append(valid_guesses, normalized_word)
                /\ UNCHANGED target_words
    /\ i' = i + 1
    /\ UNCHANGED <<prog, pc, lines, words>>
    /\ UNCHANGED <<js_vars, extractor_vars, filter_vars>>

\* One turn of the loop over words.
main_loop ==
    /\ prog = "process_words"
    /\ pc = "loop"
    /\ i <= Len(words)
    /\ LET normalized_word == remove_accents(words[i])
       IN  IF Len(normalized_word) # 5 \/ is_likely_proper_noun(normalized_word)
           THEN UNCHANGED <<valid_guesses, target_words>>
           ELSE /\ valid_guesses' = Append(valid_guesses, normalized_word)
                /\ target_words' =
                      IF ~is_likely_plural_or_conjugated(normalized_word)
                      THEN Append(target_words, normalized_word)
                      ELSE target_words
    /\ i' = i + 1
    /\ UNCHANGED <<prog, pc, lines, words>>
    /\ UNCHANGED <<js_vars, extractor_vars, filter_vars>>

\* After the loop: both lists through sorted(list(set(...))), then words.js.
main_write ==
    /\ prog = "process_words"
    /\ pc = "loop"
    /\ i > Len(words)
    /\ valid_guesses' = sorted(Range(valid_guesses))
    /\ target_words' = sorted(Range(target_words))
    /\ TARGET_WORDS' = target_words'
    /\ VALID_GUESSES' = valid_guesses'
    /\ pc' = "done"
    /\ UNCHANGED <<prog, lines, words, i>>
    /\ UNCHANGED <<extractor_vars, filter_vars>>

(***************************************************************************)
(* LibreOfficeExtractor.run                                                *)
(***************************************************************************)

\* lines holds the lines after the first; the first is the word count, and
\* int() of it raises when it is no number.
extract_from_dic ==
    /\ prog = "extract_from_libreoffice"
    /\ pc = "start"
    /\ \E exists \in BOOLEAN, header_is_count \in BOOLEAN :
          IF exists /\ header_is_count
          THEN /\ extracted' = {DicWord(lines[k]) : k \in DOMAIN lines} \ {<<>>}
               /\ pc' = "extracted"
          ELSE /\ pc' = "error"
               /\ UNCHANGED extracted
    /\ UNCHANGED <<prog, lines, five_letter, saved>>
    /\ UNCHANGED <<js_vars, main_vars, filter_vars>>

filter_5letter_words ==
    /\ prog = "extract_from_libreoffice"
    /\ pc = "extracted"
    /\ extracted' = {_expand_ligatures(word) : word \in {w \in extracted : IsFiveLetter(w)}}
    /\ five_letter' = Cardinality({w \in extracted : IsFiveLetter(w)})
    /\ pc' = "filtered"
    /\ UNCHANGED <<prog, lines, saved>>
    /\ UNCHANGED <<js_vars, main_vars, filter_vars>>

save_to_file ==
    /\ prog = "extract_from_libreoffice"
    /\ pc = "filtered"
    /\ saved' = sorted(extracted)
    /\ pc' = "done"
    /\ UNCHANGED <<prog, lines, extracted, five_letter>>
    /\ UNCHANGED <<js_vars, main_vars, filter_vars>>

(***************************************************************************)
(* SmartFilterV2.run                                                       *)
(***************************************************************************)

load_words ==
    /\ prog = "smart_filter"
    /\ pc = "start"
    /\ \E exists \in BOOLEAN :
          IF exists
          THEN /\ words_raw' = {strip(lines[k]) : k \in DOMAIN lines} \ {<<>>}
               /\ pending' = words_raw'
               /\ pc' = "heuristics"
          ELSE /\ pc' = "error"
               /\ UNCHANGED <<words_raw, pending>>
    /\ UNCHANGED <<prog, lines, spellchecker, initial_accepted, to_spellcheck,
                   words_accepted, words_rejected, words_spellcheck_validated, stats,
                   oracle_log>>
    /\ UNCHANGED <<js_vars, main_vars, extractor_vars>>

\* filter_words, one turn of the loop over words_raw: a set is visited in any order.
filter_heuristics ==
    /\ prog = "smart_filter"
    /\ pc = "heuristics"
    /\ \E word \in pending :
          /\ pending' = pending \ {word}
          /\ IF _is_valid_word(word)
             THEN /\ initial_accepted' = initial_accepted \cup {word}
                  /\ UNCHANGED <<to_spellcheck, stats>>
             ELSE /\ to_spellcheck' = to_spellcheck \cup {word}
                  /\ stats' = [stats EXCEPT ![RejectionReason(word)] = @ + 1]
                  /\ UNCHANGED initial_accepted
    /\ UNCHANGED <<prog, pc, lines, spellchecker, words_raw, words_accepted,
                   words_rejected, words_spellcheck_validated, oracle_log>>
    /\ UNCHANGED <<js_vars, main_vars, extractor_vars>>

\* filter_between without the else branch: with no spell-checker the rejected
\* words are never recorded.
filter_between_no_else ==
    /\ prog = "smart_filter"
    /\ pc = "heuristics"
    /\ pending = {}
    /\ stats' = [stats EXCEPT !["initial_accepted"] = Cardinality(initial_accepted)]
    /\ words_accepted' = initial_accepted
    /\ IF spellchecker # "None" /\ to_spellcheck # {}
       THEN /\ pending' = to_spellcheck
            /\ pc' = "spellcheck"
       ELSE /\ pc' = "normalize"
            /\ UNCHANGED pending
    /\ UNCHANGED words_rejected
    /\ UNCHANGED <<prog, lines, spellchecker, words_raw, initial_accepted, to_spellcheck,
                   words_spellcheck_validated, oracle_log>>
    /\ UNCHANGED <<js_vars, main_vars, extractor_vars>>

\* filter_words between its loops: the rejected words go to the spell-checker
\* when there is one, and are the rejected words otherwise.
filter_between ==
    /\ prog = "smart_filter"
    /\ pc = "heuristics"
    /\ pending = {}
    /\ stats' = [stats EXCEPT !["initial_accepted"] = Cardinality(initial_accepted)]
    /\ words_accepted' = initial_accepted
    /\ IF spellchecker # "None" /\ to_spellcheck # {}
       THEN /\ pending' = to_spellcheck
            /\ pc' = "spellcheck"
            /\ UNCHANGED words_rejected
       ELSE /\ words_rejected' = to_spellcheck
            /\ pc' = "normalize"
            /\ UNCHANGED pending
    /\ UNCHANGED <<prog, lines, spellchecker, words_raw, initial_accepted, to_spellcheck,
                   words_spellcheck_validated, oracle_log>>
    /\ UNCHANGED <<js_vars, main_vars, extractor_vars>>

\* filter_words, one turn of the loop over to_spellcheck.  words_accepted is
\* the very set initial_accepted names.
filter_spellcheck ==
    /\ prog = "smart_filter"
    /\ pc = "spellcheck"
    /\ \E word \in pending, outcome \in OracleOutcomes :
          /\ pending' = pending \ {word}
          /\ oracle_log' =
                IF spellchecker # "None" THEN oracle_log \cup {<<word, outcome>>}
                ELSE oracle_log
          /\ IF _check_spellcheck(spellchecker, outcome)
             THEN /\ words_spellcheck_validated' = words_spellcheck_validated \cup {word}
                  /\ words_accepted' = words_accepted \cup {word}
                  /\ initial_accepted' = words_accepted'
                  /\ stats' = [stats EXCEPT !["spellcheck_validated"] = @ + 1]
                  /\ UNCHANGED words_rejected
             ELSE /\ words_rejected' = words_rejected \cup {word}
                  /\ UNCHANGED <<words_spellcheck_validated, words_accepted,
                                 initial_accepted, stats>>
          /\ pc' = IF pending' = {} THEN "normalize" ELSE "spellcheck"
    /\ UNCHANGED <<prog, lines, spellchecker, words_raw, to_spellcheck>>
    /\ UNCHANGED <<js_vars, main_vars, extractor_vars>>

\* filter_words, its final step: both sets through _normalize_word.
filter_normalize ==
    /\ prog = "smart_filter"
    /\ pc = "normalize"
    /\ words_accepted' = {_normalize_word(word) : word \in words_accepted}
    /\ words_rejected' = {_normalize_word(word) : word \in words_rejected}
    /\ pc' = "filtered"
    /\ UNCHANGED <<prog, lines, spellchecker, words_raw, pending, initial_accepted,
                   to_spellcheck, words_spellcheck_validated, stats, oracle_log>>
    /\ UNCHANGED <<js_vars, main_vars, extractor_vars>>

\* const TARGET_WORDS = words_sorted; const VALID_GUESSES = TARGET_WORDS;
generate_js ==
    /\ prog = "smart_filter"
    /\ pc = "filtered"
    /\ TARGET_WORDS' = sorted(words_accepted)
    /\ VALID_GUESSES' = TARGET_WORDS'
    /\ pc' = "done"
    /\ UNCHANGED <<prog, lines>>
    /\ UNCHANGED <<main_vars, extractor_vars, filter_vars>>

Next ==
    \/ main_read
    \/ main_loop
    \/ main_write
    \/ extract_from_dic
    \/ filter_5letter_words
    \/ save_to_file
    \/ load_words
    \/ filter_heuristics
    \/ filter_between
    \/ filter_spellcheck
    \/ filter_normalize
    \/ generate_js

Spec == Init /\ [][Next]_vars

(***************************************************************************)
(* The properties                                                          *)
(***************************************************************************)

\* The words of the two arrays of the generated .js file.
Emitted == Range(TARGET_WORDS) \cup Range(VALID_GUESSES)

\* filter_words has returned.
Filtered == prog = "smart_filter" /\ pc \in {"filtered", "done"}

\* main has written words.js.
MainDone == prog = "process_words" /\ pc = "done"

\* C1: every word of TARGET_WORDS is a word of VALID_GUESSES, in the words.js of
\* process_words.main (whose lists nest all along the loop) and in the file of
\* SmartFilterV2.generate_js.
C1_TargetsAreGuesses ==
    /\ Range(TARGET_WORDS) \subseteq Range(VALID_GUESSES)
    /\ Range(target_words) \subseteq Range(valid_guesses)

\* A run of main that emits targets, and guesses that are no targets.
C1_Witness ==
    /\ MainDone
    /\ TARGET_WORDS # <<>>
    /\ Range(VALID_GUESSES) \ Range(TARGET_WORDS) # {}

\* C2: after main and after filter_words every word of the target-word and
\* valid-guess lists has exactly 5 characters.
C2_UniformLength ==
    /\ \A w \in Emitted : Len(w) = 5
    /\ Filtered => \A w \in words_accepted : Len(w) = 5

\* s is strictly ascending in the order of sorted(): sorted, and no element twice.
StrictlyAscending(s) == \A k \in 1..(Len(s) - 1) : StrLess(s[k], s[k + 1])

\* C3: every emitted list (TARGET_WORDS, VALID_GUESSES, the file of save_to_file)
\* is sorted ascending and holds no element twice, and holds the words collected.
C3_SortedNoDuplicates ==
    /\ StrictlyAscending(TARGET_WORDS)
    /\ StrictlyAscending(VALID_GUESSES)
    /\ StrictlyAscending(saved)
    /\ prog = "smart_filter" /\ pc = "done" => Range(TARGET_WORDS) = words_accepted
    /\ prog = "extract_from_libreoffice" /\ pc = "done" => Range(saved) = extracted

\* A run of main on two words that both pass and come in descending order.
C3_Witness ==
    /\ MainDone
    /\ Len(words) = 2
    /\ Len(VALID_GUESSES) = 2
    /\ StrLess(words[2], words[1])

\* C4: every emitted word of main and every word of words_accepted after
\* filter_words is made of the letters a-z only.
C4_OnlyLowercaseLetters ==
    /\ \A w \in Emitted : Range(w) \subseteq Range(AsciiLower)
    /\ Filtered => \A w \in words_accepted : Range(w) \subseteq Range(AsciiLower)

\* C5: the three normalizations are idempotent on every word they are applied
\* to: remove_accents on the words of main, _normalize_word on the raw words of
\* the filter, _expand_ligatures on the words of the extractor.
C5_NormalizationIdempotent ==
    /\ \A k \in DOMAIN words :
          remove_accents(remove_accents(words[k])) = remove_accents(words[k])
    /\ \A w \in words_raw :
          _normalize_word(_normalize_word(w)) = _normalize_word(w)
    /\ \A k \in DOMAIN lines :
          _expand_ligatures(_expand_ligatures(DicWord(lines[k])))
             = _expand_ligatures(DicWord(lines[k]))

\* The ligatures of ligature_map.
Ligatures == {ligature_map[k][1] : k \in DOMAIN ligature_map}

HasLigature(w) == \E k \in DOMAIN w : w[k] \in Ligatures

OneLigature(w) == Cardinality({k \in DOMAIN w : w[k] \in Ligatures}) = 1

\* Every character of w is a letter: no mark, no punctuation.
AllLetters(w) == \A k \in DOMAIN w : isalpha(w[k])

\* Every character of w is a ligature or one of a-z.
PlainBesideLigatures(w) == Range(w) \subseteq Ligatures \cup Range(AsciiLower)

\* The extractor has filtered.
ExtractorFiltered == prog = "extract_from_libreoffice" /\ pc \in {"filtered", "done"}

\* C6 as stated: the gate sees the expanded word only. A 4-character raw word
\* with one ligature is stored in expanded form, a 5-character raw word with a
\* ligature is dropped.
C6_Original ==
    /\ MainDone =>
          \A k \in DOMAIN words :
             /\ Len(words[k]) = 4 /\ OneLigature(words[k])
                   => _expand_ligatures(words[k]) \in Range(VALID_GUESSES)
             /\ Len(words[k]) = 5 /\ HasLigature(words[k])
                   => remove_accents(words[k]) \notin Emitted
    /\ ExtractorFiltered =>
          \A k \in DOMAIN lines :
             /\ Len(DicWord(lines[k])) = 4 /\ OneLigature(DicWord(lines[k]))
                   => _expand_ligatures(DicWord(lines[k])) \in extracted
             /\ Len(DicWord(lines[k])) = 5 /\ HasLigature(DicWord(lines[k]))
                   => _expand_ligatures(DicWord(lines[k])) \notin extracted

\* C6, amended: for raw words made of letters. A raw word of three letters a-z
\* and one ligature is stored in expanded form (by main unless the expanded
\* word is a curated proper noun); a raw word of 5 letters, one of them a
\* ligature, is dropped by both gates.
C6_GateAfterExpansion ==
    /\ MainDone =>
          \A k \in DOMAIN words :
             /\ ( /\ Len(words[k]) = 4
                  /\ OneLigature(words[k])
                  /\ PlainBesideLigatures(words[k])
                  /\ _expand_ligatures(words[k]) \notin proper_nouns )
                   => /\ Len(_expand_ligatures(words[k])) = 5
                      /\ _expand_ligatures(words[k]) \in Range(VALID_GUESSES)
             /\ Len(words[k]) = 5 /\ HasLigature(words[k]) /\ AllLetters(words[k])
                   => /\ remove_accents(words[k]) \notin Emitted
                      /\ _expand_ligatures(words[k]) \notin Emitted
    /\ ExtractorFiltered =>
          \A k \in DOMAIN lines :
             /\ ( /\ Len(DicWord(lines[k])) = 4
                  /\ OneLigature(DicWord(lines[k]))
                  /\ PlainBesideLigatures(DicWord(lines[k])) )
                   => _expand_ligatures(DicWord(lines[k])) \in extracted
             /\ Len(DicWord(lines[k])) = 5 /\ HasLigature(DicWord(lines[k]))
                   => _expand_ligatures(DicWord(lines[k])) \notin extracted

\* A run of main on a 4-character word with a ligature, stored expanded, and
\* a 5-letter word with a ligature, dropped.
C6_Witness ==
    /\ MainDone
    /\ Len(words) = 2
    /\ Len(words[1]) = 4 /\ OneLigature(words[1]) /\ PlainBesideLigatures(words[1])
    /\ Len(words[2]) = 5 /\ HasLigature(words[2]) /\ AllLetters(words[2])
    /\ VALID_GUESSES = <<_expand_ligatures(words[1])>>

\* What the suffix rules and their exception tables make of a word, as C7 has it.
TargetEligible(word) ==
    IF endswith(word, <<"s">>) THEN word \in s_exceptions
    ELSE IF endswith(word, <<"e", "z">>) THEN word \in ez_exceptions
    ELSE TRUE

\* The word temps.
Temps == <<"t", "e", "m", "p", "s">>

C8_ProperNounExcluded ==
    MainDone =>
       \A k \in DOMAIN lines :
          remove_accents(lower(strip(lines[k]))) \in proper_nouns
             => remove_accents(lower(strip(lines[k]))) \notin Emitted

\* A run of main on a capitalised proper noun between whitespace, and a word
\* that is emitted.
C8_Witness ==
    /\ MainDone
    /\ \E k \in DOMAIN lines :
          /\ lines[k] # lower(strip(lines[k]))
          /\ Len(lower(strip(lines[k]))) = 5
          /\ lower(strip(lines[k])) \in proper_nouns
    /\ VALID_GUESSES # <<>>

\* C9: with a spell-checker, a raw word the heuristics reject and the oracle
\* knows is, normalized, in words_accepted, and is in
\* words_spellcheck_validated; one the oracle does not know (or fails on) is,
\* normalized, in words_rejected and not in words_spellcheck_validated; the
\* oracle is asked about rejected words only.
C9_OracleRescue ==
    /\ \A entry \in oracle_log :
          entry[1] \in words_raw /\ ~_is_valid_word(entry[1])
    /\ Filtered /\ spellchecker # "None" =>
          \A word \in words_raw :
             /\ <<word, "true">> \in oracle_log
                   => /\ _normalize_word(word) \in words_accepted
                      /\ word \in words_spellcheck_validated
             /\ <<word, "false">> \in oracle_log \/ <<word, "raise">> \in oracle_log
                   => /\ _normalize_word(word) \in words_rejected
                      /\ word \notin words_spellcheck_validated

\* A run of the filter in which the oracle rescues a word of a bad start shape
\* and does not know another rejected word.
C9_Witness ==
    /\ Filtered
    /\ \E rescued \in words_raw, lost \in words_raw :
          /\ RejectionReason(rescued) = "rejected_bad_start"
          /\ <<rescued, "true">> \in oracle_log
          /\ _normalize_word(rescued) \in words_accepted
          /\ <<lost, "false">> \in oracle_log
          /\ _normalize_word(lost) \in words_rejected

\* What the heuristics alone accept and reject, normalized.
HeuristicsOnlyAccepted == {_normalize_word(word) : word \in {w \in words_raw : _is_valid_word(w)}}

HeuristicsOnlyRejected == {_normalize_word(word) : word \in {w \in words_raw : ~_is_valid_word(w)}}

\* C10: without a spell-checker filter_words runs to its end and yields the
\* sets of the heuristics alone, nothing validated and the oracle never asked;
\* so does a run whose oracle says false to every word; and _check_spellcheck
\* is false whatever the oracle would do.
C10_DegradedMode ==
    /\ prog = "smart_filter" /\ spellchecker = "None" =>
          /\ pc = "heuristics" => ENABLED (filter_heuristics \/ filter_between)
          /\ pc = "normalize" => ENABLED filter_normalize
          /\ pc # "spellcheck"
          /\ words_spellcheck_validated = {}
          /\ oracle_log = {}
          /\ \A outcome \in OracleOutcomes : ~_check_spellcheck(spellchecker, outcome)
    /\ Filtered /\ (spellchecker = "None" \/ \A entry \in oracle_log : entry[2] = "false") =>
          /\ words_accepted = HeuristicsOnlyAccepted
          /\ words_rejected = HeuristicsOnlyRejected
          /\ words_spellcheck_validated = {}

\* A degraded run that is over, with an accepted word and a rejected word.
C10_Witness ==
    /\ prog = "smart_filter"
    /\ spellchecker = "None"
    /\ pc = "done"
    /\ words_accepted # {}
    /\ words_rejected # {}

\* The rules of the heuristic validator in the order C11 gives them.
RuleOrder ==
    <<"rejected_proper_noun", "rejected_length", "rejected_no_vowel",
      "rejected_double_start", "rejected_bad_ending", "rejected_bad_start">>

\* word fails the rule, taken alone.
FailsRule(rule, word) ==
    CASE rule = "rejected_proper_noun" -> word # <<>> /\ isupper(word[1])
      [] rule = "rejected_length" -> Len(word) < 3 \/ Len(word) > 5
      [] rule = "rejected_no_vowel" -> \A k \in DOMAIN word : word[k] \notin VowelClass
      [] rule = "rejected_double_start" -> Len(word) > 1 /\ word[1] = word[2]
      [] rule = "rejected_bad_ending" ->
            Len(word) >= 2 /\ SubSeq(word, Len(word) - 1, Len(word)) \in bad_endings
      [] rule = "rejected_bad_start" -> ~ValidStart(word)

\* The positions in RuleOrder of the rules word fails.
FailedRules(word) == {k \in DOMAIN RuleOrder : FailsRule(RuleOrder[k], word)}

\* The first rule, in that order, that word fails; "accepted" if it fails none.
FirstFailed(word) ==
    LET failed == FailedRules(word)
    IN  IF failed = {} THEN "accepted"
        ELSE RuleOrder[CHOOSE k \in failed : \A j \in failed : k <= j]

\* The raw words the first loop of filter_words has visited.
Visited == IF pc = "heuristics" THEN words_raw \ pending ELSE words_raw

\* The sum of the rejected_* counters.
TotalRejected ==
    stats["rejected_proper_noun"] + stats["rejected_length"] + stats["rejected_no_vowel"]
       + stats["rejected_double_start"] + stats["rejected_bad_ending"]
       + stats["rejected_bad_start"]

\* C11: each call of _is_valid_word that rejects adds one to the counter of the
\* first rule, in the fixed order, that the word fails, and to no other; a
\* call that accepts adds to none.  So at every turn of the loop each counter
\* counts the visited words whose first failed rule is its own, and after the
\* loop the counters sum to the number of rejected raw words and, with
\* initial_accepted, to the number of raw words.
C11_FirstFailingRuleCounts ==
    prog = "smart_filter" /\ pc \notin {"start", "error"} =>
       LET first == {<<w, FirstFailed(w)>> : w \in Visited}
           failing == {p \in first : p[2] # "accepted"}
       IN  /\ \A rule \in RejectionReasons :
                 stats[rule] = Cardinality({p \in failing : p[2] = rule})
           /\ to_spellcheck = {p[1] : p \in failing}
           /\ pc # "heuristics" =>
                 /\ TotalRejected = Cardinality(to_spellcheck)
                 /\ stats["initial_accepted"] + TotalRejected = Cardinality(words_raw)

\* A run of the filter, past its first loop, on a word that fails two rules
\* (no vowel, and so no valid start) and a word that fails none.
C11_Witness ==
    /\ Filtered
    /\ \E w \in words_raw : Cardinality(FailedRules(w)) >= 2
    /\ stats["rejected_no_vowel"] = 1
    /\ stats["initial_accepted"] = 1

\* C12: after filter_words a raw word that starts with a capital is rejected as
\* a proper noun, and its normalized form is not in words_accepted, whatever
\* the oracle answered, when no other raw word has the same normalized form.
C12_CapitalisedNeverAccepted ==
    Filtered =>
       \A word \in words_raw :
          ( /\ isupper(word[1])
            /\ \A other \in words_raw \ {word} :
                  _normalize_word(other) # _normalize_word(word) )
             => /\ RejectionReason(word) = "rejected_proper_noun"
                /\ _normalize_word(word) \notin words_accepted

\* C13: after filter_words no normalized word is both in words_accepted and in
\* words_rejected.
C13_AcceptedRejectedDisjoint ==
    Filtered => words_accepted \cap words_rejected = {}

\* C14: every entry of the curated proper-noun set is effective: a run of main
\* whose input holds the entry emits neither the entry nor its normalized form.
C14_EveryEntryEffective ==
    MainDone =>
       \A entry \in proper_nouns :
          entry \in Range(words)
             => entry \notin Emitted /\ remove_accents(entry) \notin Emitted

====
